---- MODULE Spec2Model ----
(***************************************************************************)
(* A model of iNatJS (src/inatjs.js): the request queue, its dispatcher    *)
(* with rate limiting (makeINatRequest / queueINatRequest), the            *)
(* authentication check that goes through it (checkAuthentication), the    *)
(* poll of the queue's state (checkiNatQueue), the url the dispatcher      *)
(* constructs and the encoder toRISON.                                     *)
(*                                                                         *)
(* One step of the model is one call made by application code, one part of *)
(* the completion of a transport call ($.ajax runs the success or error    *)
(* callback and then the complete callback, in one turn of the event       *)
(* loop), the firing of one timer, or the passing of one unit of time.     *)
(* The transport ($.ajax) is asynchronous: its callbacks run in a later    *)
(* turn than the call that issued it.                                      *)
(***************************************************************************)
EXTENDS Integers, Sequences, FiniteSets, TLC

\* ------------------------------------------------------------------------
\* Bounds of the model

\* Calls of queueINatRequest in a run of SpecQueue.
MaxRequests == 6
\* Calls of queueINatRequest, direct or through checkAuthentication, in a run
\* of SpecAuth.
MaxAuthRequests == 4
\* Calls of checkAuthentication with a token in a run.
MaxProbes == 2
\* Calls of checkAuthentication with a falsy token in a run.
MaxFalsy == 1
\* Calls of queueINatRequest in a run of SpecPoll.
MaxPollRequests == 4
\* Polls of one checkiNatQueue call, the first included, in a run.
MaxPolls == 3
\* Names in a list of names given to toRISON.
MaxNames == 2

\* ------------------------------------------------------------------------
\* Program constants

\* apiOptions.RequestsPerMinute. The source sets 60; the model scales the
\* threshold down so that a queue deeper than it fits the bounds.
RequestsPerMinute == 1
\* apiOptions.APITimeout, in units of model time. The source sets 1000 ms.
APITimeout == 2
\* One minute, in units of model time: RequestsPerMinute cooldowns, as
\* 60 * 1000 ms in the source.
Minute == RequestsPerMinute * APITimeout

\* JavaScript's false, where a variable holds either false or a string.
JsFalse == "false"

\* API tokens the application may pass. The service accepts the valid ones.
ValidTokens == {"tokA"}
InvalidTokens == {"bad"}
Tokens == ValidTokens \cup InvalidTokens
\* The login the service reports for the token a request was sent with.
Login(token) == IF token = "tokA" THEN "userA" ELSE "nobody"

VARIABLES
  iNatAPIQueue,        \* the queue of request descriptors
  iNatAPIQueued,       \* queueing active
  iNatAPIRateLimiting, \* rate limiting active
  iNatAuthorized,      \* JsFalse or the authorized login
  headers,             \* the shared headers object
  ajax,                \* transport calls issued and not yet completed
  timeouts,            \* pending setTimeout(makeINatRequest): time left to each
  enqueued,            \* history: number of descriptors enqueued so far
  probes,              \* history: checkAuthentication calls with a token
  falsyCalls,          \* history: checkAuthentication calls with a falsy token
  syncFalse,           \* history: callback(false) run inside such a call
  dispatchLog,         \* history: ids in the order of their $.ajax calls
  cbLog,               \* history: request.success / request.error invocations
  authLog,             \* history: callbacks run by the probes' success / error
  ages,                \* history: time since each dispatch of the last minute
  exceeded,            \* history: queue depth exceeded the threshold in this active period
  pollTimers,          \* pending setTimeout(checkiNatQueue, freq, freq, callback)
  polls,               \* history: per callback, the freq of the application's
                       \* checkiNatQueue call and the values it was called with
  drainedAt,           \* history: per callback, the value of enqueued when the
                       \* queue last became inactive since its latest poll, or NoDrain
  call                 \* a call of a function without side effects: its
                       \* arguments and, once it has run, its result

vars == <<iNatAPIQueue, iNatAPIQueued, iNatAPIRateLimiting, iNatAuthorized,
          headers, ajax, timeouts, enqueued, probes, falsyCalls, syncFalse,
          dispatchLog, cbLog, authLog, ages, exceeded, pollTimers, polls,
          drainedAt, call>>

\* ------------------------------------------------------------------------
\* Helpers

RemoveAt(s, i) == SubSeq(s, 1, i - 1) \o SubSeq(s, i + 1, Len(s))

\* Time since the latest dispatch; Minute when there was none in the last minute.
LastAge == IF ages = <<>> THEN Minute ELSE ages[Len(ages)]

\* The transport call being completed in the current turn, if any: its
\* success or error callback has run and its complete callback has not.
Completing == {c \in ajax : c.st = "called"}
\* Between turns of the event loop.
AtRest == Completing = {}

\* The dispatches a window of one minute is judged by: the latest
\* RequestsPerMinute + 1 of them.
Latest(s) ==
  IF Len(s) > RequestsPerMinute + 1
  THEN SubSeq(s, Len(s) - RequestsPerMinute, Len(s)) ELSE s

\* The part of the state makeINatRequest reads and writes, as a record.
Machine == [queue |-> iNatAPIQueue, queued |-> iNatAPIQueued,
            rateLimiting |-> iNatAPIRateLimiting, ajax |-> ajax,
            timeouts |-> timeouts, dispatchLog |-> dispatchLog, ages |-> ages]

\* The callback functions the application passes to checkiNatQueue, one per
\* call.
Callbacks == {"cb1", "cb2"}
\* The callback has a poll pending.
Polling(callback) ==
  \E i \in 1..Len(pollTimers) : pollTimers[i].callback = callback
\* No drain since the callback's latest poll.
NoDrain == -1

Install(m) ==
  /\ iNatAPIQueue' = m.queue
  /\ iNatAPIQueued' = m.queued
  /\ iNatAPIRateLimiting' = m.rateLimiting
  /\ ajax' = m.ajax
  /\ timeouts' = m.timeouts
  /\ dispatchLog' = m.dispatchLog
  /\ ages' = m.ages
  /\ exceeded' = IF m.queued
                 THEN exceeded \/ Len(m.queue) > RequestsPerMinute
                 ELSE FALSE
  /\ drainedAt' = IF iNatAPIQueued /\ ~m.queued
                  THEN [p \in Callbacks |->
                          IF Polling(p) THEN enqueued ELSE drainedAt[p]]
                  ELSE drainedAt

\* ------------------------------------------------------------------------
\* makeINatRequest

\* A variant that sends what the descriptor's own call put in the header.
SentAuthorization_atEnqueue(request, hdrs) ==
  IF request.kind = "probe" THEN request.token
  ELSE IF request.headers = "shared" THEN hdrs.Authorization ELSE ""

\* The Authorization header $.ajax sends for a descriptor: the descriptor
\* holds a reference to its headers object, read when $.ajax is called.
SentAuthorization(request, hdrs) ==
  IF request.headers = "shared" THEN hdrs.Authorization ELSE ""

\* A variant that takes the newest descriptor (pop for shift).
Dispatch_pop(m, hdrs) ==
  LET request == m.queue[Len(m.queue)]
      rest == SubSeq(m.queue, 1, Len(m.queue) - 1)
  IN [m EXCEPT
        !.queue = rest,
        !.rateLimiting = IF Len(rest) > RequestsPerMinute THEN TRUE ELSE @,
        !.ajax = @ \cup {[req |-> request,
                          sentAuth |-> SentAuthorization(request, hdrs),
                          st |-> "sent", status |-> "none"]},
        !.dispatchLog = Append(@, request.id),
        !.ages = Latest(Append(@, 0))]

\* A variant that sets the flag anew at every dispatch.
Dispatch_reevaluates(m, hdrs) ==
  LET request == Head(m.queue)
      rest == Tail(m.queue)
  IN [m EXCEPT
        !.queue = rest,
        !.rateLimiting = Len(rest) > RequestsPerMinute,
        !.ajax = @ \cup {[req |-> request,
                          sentAuth |-> SentAuthorization(request, hdrs),
                          st |-> "sent", status |-> "none"]},
        !.dispatchLog = Append(@, request.id),
        !.ages = Latest(Append(@, 0))]

\* The queue is not empty: shift the head, set the flag, call $.ajax.
Dispatch(m, hdrs) ==
  LET request == Head(m.queue)
      rest == Tail(m.queue)
  IN [m EXCEPT
        !.queue = rest,
        !.rateLimiting = IF Len(rest) > RequestsPerMinute THEN TRUE ELSE @,
        !.ajax = @ \cup {[req |-> request,
                          sentAuth |-> SentAuthorization(request, hdrs),
                          st |-> "sent", status |-> "none"]},
        !.dispatchLog = Append(@, request.id),
        !.ages = Latest(Append(@, 0))]

\* A variant that leaves queueing active.
Deactivate_keepsQueued(m) == [m EXCEPT !.rateLimiting = FALSE]

\* The queue is empty: deactivate queueing.
Deactivate(m) == [m EXCEPT !.queued = FALSE, !.rateLimiting = FALSE]

makeINatRequest(m, hdrs) ==
  IF Len(m.queue) > 0 THEN Dispatch(m, hdrs) ELSE Deactivate(m)

\* ------------------------------------------------------------------------
\* queueINatRequest

\* A variant without the test of iNatAPIQueued.
queueINatRequest_always(m, request, hdrs) ==
  [makeINatRequest([m EXCEPT !.queue = Append(@, request)], hdrs)
     EXCEPT !.queued = TRUE]

queueINatRequest(m, request, hdrs) ==
  LET pushed == [m EXCEPT !.queue = Append(@, request)]
      ran == IF ~pushed.queued THEN makeINatRequest(pushed, hdrs) ELSE pushed
  IN [ran EXCEPT !.queued = TRUE]

\* A descriptor of application code: with the shared headers or without headers.
AppRequest(h) ==
  [id |-> enqueued + 1, kind |-> "app", headers |-> h, token |-> ""]

\* Application code calls queueINatRequest. During a completion the call is
\* one made from inside the success or error callback.
QueueRequest(max, hs) ==
  /\ enqueued < max
  /\ \E h \in hs :
       Install(queueINatRequest(Machine, AppRequest(h), headers))
  /\ enqueued' = enqueued + 1
  /\ UNCHANGED <<iNatAuthorized, headers, probes, falsyCalls, syncFalse, cbLog,
                 authLog,
                 pollTimers, polls, call>>

\* ------------------------------------------------------------------------
\* checkAuthentication

ProbeRequest(apiToken) ==
  [id |-> enqueued + 1, kind |-> "probe", headers |-> "shared",
   token |-> apiToken]

\* apiToken is set: set the header, queue the probe of users/me.
CheckAuthenticationToken ==
  /\ enqueued < MaxAuthRequests
  /\ probes < MaxProbes
  /\ probes' = probes + 1
  /\ \E apiToken \in Tokens :
       LET hdrs == [headers EXCEPT !.Authorization = apiToken]
       IN /\ headers' = hdrs
          /\ Install(queueINatRequest(Machine, ProbeRequest(apiToken), hdrs))
  /\ enqueued' = enqueued + 1
  /\ UNCHANGED <<iNatAuthorized, falsyCalls, syncFalse, cbLog, authLog,
                 pollTimers, polls, call>>

\* A variant that goes on to queue the probe after callback(false).
CheckAuthenticationFalsy_probes ==
  /\ falsyCalls < MaxFalsy
  /\ enqueued < MaxAuthRequests
  /\ falsyCalls' = falsyCalls + 1
  /\ syncFalse' = syncFalse + 1
  /\ Install(queueINatRequest(Machine, ProbeRequest(""), headers))
  /\ enqueued' = enqueued + 1
  /\ UNCHANGED <<iNatAuthorized, headers, probes, cbLog, authLog,
                 pollTimers, polls, call>>

\* apiToken is not set: callback(false).
CheckAuthenticationFalsy ==
  /\ falsyCalls < MaxFalsy
  /\ falsyCalls' = falsyCalls + 1
  /\ syncFalse' = syncFalse + 1
  /\ UNCHANGED <<iNatAPIQueue, iNatAPIQueued, iNatAPIRateLimiting,
                 iNatAuthorized, headers, ajax, timeouts, enqueued, probes,
                 dispatchLog, cbLog, authLog, ages, exceeded,
                 pollTimers, polls, drainedAt, call>>

\* ------------------------------------------------------------------------
\* Completion of a transport call

\* The textStatus $.ajax may end with. The service answers a probe of
\* users/me with success exactly when the Authorization it was sent with is a
\* valid token; any call may also fail in the transport ("timeout").
Statuses(c) ==
  IF c.req.kind = "probe"
  THEN (IF c.sentAuth \in ValidTokens THEN {"success"} ELSE {"error"})
         \cup {"timeout"}
  ELSE {"success", "error"}

\* The credential state the functions of checkAuthentication's probe work on.
Credentials == [headers |-> headers, authorized |-> iNatAuthorized]

\* success of the probe: set the authorized user (callback(true, user) follows).
ProbeSuccess(cred, login) == [cred EXCEPT !.authorized = login]

\* A variant that forgets to unset the header.
ProbeError_keepsHeader(cred) == [cred EXCEPT !.authorized = JsFalse]

\* error of the probe: unset authorization (callback(false, ...) follows).
ProbeError(cred) ==
  [cred EXCEPT !.headers = [@ EXCEPT !.Authorization = ""],
               !.authorized = JsFalse]

\* $.ajax ends with the given status: it runs the success callback or the
\* error callback, which run request.success or request.error. For a probe
\* these are the two functions checkAuthentication put in the descriptor.
AjaxCallback(c, status) ==
  LET ok == status = "success"
      cred == IF c.req.kind # "probe" THEN Credentials
              ELSE IF ok THEN ProbeSuccess(Credentials, Login(c.sentAuth))
              ELSE ProbeError(Credentials)
  IN
  /\ ajax' = (ajax \ {c}) \cup {[c EXCEPT !.st = "called", !.status = status]}
  /\ cbLog' = Append(cbLog, c.req.id)
  /\ headers' = cred.headers
  /\ iNatAuthorized' = cred.authorized
  /\ authLog' = IF c.req.kind = "probe"
                THEN authLog \cup {[id |-> c.req.id, token |-> c.req.token,
                                    ok |-> ok, status |-> status]}
                ELSE authLog
  /\ UNCHANGED <<iNatAPIQueue, iNatAPIQueued, iNatAPIRateLimiting, timeouts,
                 enqueued, probes, falsyCalls, syncFalse, dispatchLog, ages,
                 exceeded,
                 pollTimers, polls, drainedAt, call>>

Callback ==
  /\ AtRest
  /\ \E c \in ajax : \E status \in Statuses(c) : AjaxCallback(c, status)

\* A variant that never waits.
complete_immediate(m, hdrs, status) == makeINatRequest(m, hdrs)

\* A variant that sets no timer.
complete_noTimer(m, hdrs, status) ==
  IF m.rateLimiting THEN m ELSE makeINatRequest(m, hdrs)

\* A variant that goes on only after a success.
complete_stopOnError(m, hdrs, status) ==
  IF status # "success" THEN m
  ELSE IF m.rateLimiting
  THEN [m EXCEPT !.timeouts = Append(@, APITimeout)]
  ELSE makeINatRequest(m, hdrs)

\* The complete callback of makeINatRequest's $.ajax call.
complete(m, hdrs, status) ==
  IF m.rateLimiting
  THEN [m EXCEPT !.timeouts = Append(@, APITimeout)]
  ELSE makeINatRequest(m, hdrs)

\* $.ajax runs the complete callback after the success or error callback and
\* forgets the call.
Complete ==
  /\ \E c \in Completing :
       Install(complete([Machine EXCEPT !.ajax = @ \ {c}], headers, c.status))
  /\ UNCHANGED <<iNatAuthorized, headers, enqueued, probes, falsyCalls,
                 syncFalse, cbLog, authLog,
                 pollTimers, polls, call>>

\* ------------------------------------------------------------------------
\* Timers and time

\* A timer set by the complete callback fires: makeINatRequest runs.
TimerFire ==
  /\ AtRest
  /\ \E i \in 1..Len(timeouts) :
       /\ timeouts[i] = 0
       /\ Install(makeINatRequest(
            [Machine EXCEPT !.timeouts = RemoveAt(@, i)], headers))
  /\ UNCHANGED <<iNatAuthorized, headers, enqueued, probes, falsyCalls,
                 syncFalse, cbLog, authLog,
                 pollTimers, polls, call>>

Older(s) == [i \in 1..Len(s) |-> s[i] + 1]
RECURSIVE DropOld(_)
DropOld(s) ==
  IF s = <<>> THEN <<>>
  ELSE IF Head(s) >= Minute THEN DropOld(Tail(s)) ELSE s

\* One unit of time passes between two turns of the event loop.
Tick ==
  /\ AtRest
  /\ timeouts' = [i \in 1..Len(timeouts) |->
                   IF timeouts[i] > 0 THEN timeouts[i] - 1 ELSE 0]
  /\ pollTimers' = [i \in 1..Len(pollTimers) |->
                     [pollTimers[i] EXCEPT
                        !.left = IF @ > 0 THEN @ - 1 ELSE 0]]
  /\ ages' = DropOld(Older(ages))
  /\ UNCHANGED <<iNatAPIQueue, iNatAPIQueued, iNatAPIRateLimiting,
                 iNatAuthorized, headers, ajax, enqueued, probes, falsyCalls,
                 syncFalse, dispatchLog, cbLog, authLog, exceeded,
                 polls, drainedAt, call>>

\* ------------------------------------------------------------------------
\* checkiNatQueue

\* The freq arguments the application passes, in units of model time.
Freqs == {1, 2}

\* The part of the state checkiNatQueue writes, as a record.
PollState == [timers |-> pollTimers, polls |-> polls]

\* A variant that waits and re-checks whatever the queue's state.
checkiNatQueue_alwaysReschedules(ps, queued, freq, callback) ==
  [ps EXCEPT
     !.timers = Append(@, [left |-> freq, freq |-> freq,
                           callback |-> callback]),
     !.polls[callback].log = Append(@, queued)]

\* A variant that takes the queue for active always.
checkiNatQueue_neverStops(ps, queued, freq, callback) ==
  [ps EXCEPT
     !.timers = Append(@, [left |-> freq, freq |-> freq,
                           callback |-> callback]),
     !.polls[callback].log = Append(@, TRUE)]

\* Queue active: wait freq, then check again, and callback(true); otherwise
\* callback(false).
checkiNatQueue(ps, queued, freq, callback) ==
  IF queued
  THEN [ps EXCEPT
          !.timers = Append(@, [left |-> freq, freq |-> freq,
                                callback |-> callback]),
          !.polls[callback].log = Append(@, TRUE)]
  ELSE [ps EXCEPT !.polls[callback].log = Append(@, FALSE)]

\* The application calls checkiNatQueue(freq, callback), at rest or from
\* inside a callback.
CheckQueue ==
  /\ \E callback \in Callbacks : \E freq \in Freqs :
       /\ polls[callback].freq = 0
       /\ LET ps == checkiNatQueue(
                      [PollState EXCEPT !.polls[callback].freq = freq],
                      iNatAPIQueued, freq, callback)
          IN /\ pollTimers' = ps.timers
             /\ polls' = ps.polls
  /\ UNCHANGED <<iNatAPIQueue, iNatAPIQueued, iNatAPIRateLimiting,
                 iNatAuthorized, headers, ajax, timeouts, enqueued, probes,
                 falsyCalls, syncFalse, dispatchLog, cbLog, authLog, ages,
                 exceeded, drainedAt, call>>

\* A timer set by checkiNatQueue fires: checkiNatQueue(freq, callback) runs.
PollFire ==
  /\ AtRest
  /\ \E i \in 1..Len(pollTimers) :
       LET timer == pollTimers[i]
           ps == checkiNatQueue([PollState EXCEPT !.timers = RemoveAt(@, i)],
                                iNatAPIQueued, timer.freq, timer.callback)
       IN /\ timer.left = 0
          /\ Len(polls[timer.callback].log) < MaxPolls
          /\ pollTimers' = ps.timers
          /\ polls' = ps.polls
          /\ drainedAt' = [drainedAt EXCEPT ![timer.callback] = NoDrain]
  /\ UNCHANGED <<iNatAPIQueue, iNatAPIQueued, iNatAPIRateLimiting,
                 iNatAuthorized, headers, ajax, timeouts, enqueued, probes,
                 falsyCalls, syncFalse, dispatchLog, cbLog, authLog, ages,
                 exceeded, call>>

\* ------------------------------------------------------------------------
\* JavaScript values
\*
\* A string is the sequence of its characters. A value is a record: its type
\* tag t; s, the string a primitive converts to; v, the elements of an array
\* or the entries [key, val] of an object in the order Object.entries gives.

Str(s) == [t |-> "string", s |-> s, v |-> <<>>]
Num(digits) == [t |-> "number", s |-> digits, v |-> <<>>]
Arr(v) == [t |-> "array", s |-> <<>>, v |-> v]
Obj(v) == [t |-> "object", s |-> <<>>, v |-> v]
True == [t |-> "boolean", s |-> <<"t", "r", "u", "e">>, v |-> <<>>]
False == [t |-> "boolean", s |-> <<"f", "a", "l", "s", "e">>, v |-> <<>>]
Null == [t |-> "null", s |-> <<"n", "u", "l", "l">>, v |-> <<>>]
Undefined ==
  [t |-> "undefined", s |-> <<"u", "n", "d", "e", "f", "i", "n", "e", "d">>,
   v |-> <<>>]
\* The outcome of a call that throws a TypeError.
TypeError == [t |-> "TypeError", s |-> <<>>, v |-> <<>>]
\* The outcome of a call that has not run.
NoResult == [t |-> "none", s |-> <<>>, v |-> <<>>]

\* No call of a function without side effects is made in the run.
NoCall ==
  [fn |-> "none", shape |-> "none", names |-> <<>>, arg |-> Undefined,
   done |-> FALSE, result |-> NoResult]

\* typeof
TypeOf(x) == IF x.t \in {"object", "array", "null"} THEN "object" ELSE x.t

\* The strings of a sequence, joined with a separator.
RECURSIVE Join(_, _)
Join(strings, sep) ==
  IF strings = <<>> THEN <<>>
  ELSE IF Len(strings) = 1 THEN strings[1]
  ELSE strings[1] \o sep \o Join(Tail(strings), sep)

\* String.prototype.includes and split, for a separator of one character.
Includes(s, ch) == \E i \in 1..Len(s) : s[i] = ch
RECURSIVE Split(_, _)
Split(s, ch) ==
  IF ~Includes(s, ch) THEN <<s>>
  ELSE LET i == CHOOSE j \in 1..Len(s) :
                  s[j] = ch /\ \A k \in 1..(j - 1) : s[k] # ch
       IN <<SubSeq(s, 1, i - 1)>> \o Split(SubSeq(s, i + 1, Len(s)), ch)

\* Conversion to a string, as string concatenation does it, and
\* Array.prototype.join, which converts null and undefined elements to "".
RECURSIVE StringOf(_)
ArrayJoin(v, sep) ==
  Join([i \in 1..Len(v) |->
          IF v[i].t \in {"null", "undefined"} THEN <<>> ELSE StringOf(v[i])],
       sep)
StringOf(x) ==
  IF x.t = "array" THEN ArrayJoin(x.v, <<",">>)
  ELSE IF x.t = "object"
  THEN <<"[", "o", "b", "j", "e", "c", "t", " ",
         "O", "b", "j", "e", "c", "t", "]">>
  ELSE x.s

\* ------------------------------------------------------------------------
\* toRISON

\* toRISON(arr): the value returned, or TypeError when the call throws.
\* Reading arr.constructor throws for null and undefined.
RECURSIVE toRISON(_)
toRISON(arr) ==
  IF arr.t \in {"null", "undefined"} THEN TypeError
  ELSE IF arr.t = "object"
  THEN LET nested == [i \in 1..Len(arr.v) |->
                        IF TypeOf(arr.v[i].val) = "object"
                        THEN toRISON(arr.v[i].val) ELSE NoResult]
           param == [i \in 1..Len(arr.v) |->
                       IF TypeOf(arr.v[i].val) = "object"
                       THEN arr.v[i].key \o <<":">> \o StringOf(nested[i])
                       ELSE arr.v[i].key \o <<":", "!", "t">>]
       IN IF \E i \in 1..Len(arr.v) : nested[i] = TypeError
          THEN TypeError
          ELSE Str(<<"(">> \o Join(param, <<",">>) \o <<")">>)
  ELSE IF arr.t = "array"
  THEN Str(<<"(">> \o ArrayJoin(arr.v, <<":", "!", "t", ",">>)
             \o <<":", "!", "t", ")">>)
  ELSE IF arr.t = "string"
  THEN IF Includes(arr.s, ",")
       THEN toRISON(Arr([i \in 1..Len(Split(arr.s, ",")) |->
                           Str(Split(arr.s, ",")[i])]))
       ELSE Str(<<"(">> \o arr.s \o <<":", "!", "t", ")">>)
  ELSE False

\* The names the application asks for, free of commas.
FieldNames == {<<"i", "d">>, <<"l", "o", "g", "i", "n">>, <<"x">>}
NameLists == UNION {[1..k -> FieldNames] : k \in 0..MaxNames}
\* A list of names as an array, as a comma-separated string and as an object
\* with the names as keys.
AsSequence(names) == Arr([i \in 1..Len(names) |-> Str(names[i])])
AsString(names) == Str(Join(names, <<",">>))
AsMapping(names, val) ==
  Obj([i \in 1..Len(names) |-> [key |-> names[i], val |-> val]])
\* Values that are not an object, an array or a string.
Unsupported == {Num(<<"7">>), True, False, Null, Undefined}

\* The calls of toRISON in the runs of SpecRison.
ToRISONCall(shape, names, arg) ==
  [fn |-> "toRISON", shape |-> shape, names |-> names, arg |-> arg,
   done |-> FALSE, result |-> NoResult]
RisonCalls ==
  {ToRISONCall("sequence", names, AsSequence(names)) : names \in NameLists}
  \cup {ToRISONCall("string", names, AsString(names)) :
          names \in NameLists \ {<<>>}}
  \cup {ToRISONCall("mapping", names, AsMapping(names, val)) :
          names \in {l \in NameLists :
                       \A i, j \in 1..Len(l) : l[i] = l[j] => i = j},
          val \in {True, Num(<<"1">>), Str(<<"x">>)}}
  \cup {ToRISONCall("unsupported", <<>>, arg) : arg \in Unsupported}
  \cup {ToRISONCall("nested", <<name>>, AsMapping(<<name>>, val)) :
          name \in FieldNames, val \in Unsupported}
  \cup {ToRISONCall("tree", <<name>>, AsMapping(<<name>>, val)) :
          name \in FieldNames,
          val \in {AsMapping(<<<<"i", "d">>>>, True),
                   AsSequence(<<<<"i", "d">>>>), Arr(<<>>), Obj(<<>>)}}

\* The application calls toRISON.
ApplyToRISON ==
  /\ call.fn = "toRISON"
  /\ ~call.done
  /\ call' = [call EXCEPT !.done = TRUE, !.result = toRISON(call.arg)]
  /\ UNCHANGED <<iNatAPIQueue, iNatAPIQueued, iNatAPIRateLimiting,
                 iNatAuthorized, headers, ajax, timeouts, enqueued, probes,
                 falsyCalls, syncFalse, dispatchLog, cbLog, authLog, ages,
                 exceeded, pollTimers, polls, drainedAt>>

\* ------------------------------------------------------------------------
\* The url makeINatRequest constructs

base_url ==
  <<"h", "t", "t", "p", "s", ":", "/", "/", "a", "p", "i", ".", "i", "n", "a",
    "t", "u", "r", "a", "l", "i", "s", "t", ".", "o", "r", "g">>

\* encodeURIComponent, on the characters the model's parameters are made of.
RECURSIVE EncodeURIComponent(_)
EncodeURIComponent(s) ==
  IF s = <<>> THEN <<>>
  ELSE (IF Head(s) = "," THEN <<"%", "2", "C">>
        ELSE IF Head(s) = " " THEN <<"%", "2", "0">>
        ELSE <<Head(s)>>)
       \o EncodeURIComponent(Tail(s))

\* $.param of an object with primitive values: key=value pairs joined with &.
Param(params) ==
  Join([i \in 1..Len(params.v) |->
          EncodeURIComponent(params.v[i].key) \o <<"=">>
            \o EncodeURIComponent(StringOf(params.v[i].val))],
       <<"&">>)

\* x == "": null and undefined equal neither; a number or a boolean is
\* compared as a number with 0; an array or an object as its string.
LooseEqualsEmpty(x) ==
  IF x.t \in {"null", "undefined"} THEN FALSE
  ELSE IF x.t = "number" THEN x.s = <<"0">>
  ELSE IF x.t = "boolean" THEN x = False
  ELSE StringOf(x) = <<>>

\* A variant that encodes the fields with toRISON.
Url_encodes(request) ==
  LET hasParams == TypeOf(request.params) = "object"
      path == Join(<<base_url, request.apiVersion.s, request.endpoint.s>>,
                   <<"/">>)
      withParams == IF hasParams
                    THEN path \o <<"?">> \o Param(request.params) ELSE path
  IN IF request.apiVersion.s = <<"v", "2">>
        /\ ~LooseEqualsEmpty(request.fields)
     THEN withParams \o (IF hasParams THEN <<"&">> ELSE <<"?">>)
            \o <<"f", "i", "e", "l", "d", "s", "=">>
            \o toRISON(request.fields).s
     ELSE withParams

\* The url of a request: base url, api version and endpoint, the parameters
\* if specified, the fields parameter for API v2.
Url(request) ==
  LET hasParams == TypeOf(request.params) = "object"
      path == Join(<<base_url, request.apiVersion.s, request.endpoint.s>>,
                   <<"/">>)
      withParams == IF hasParams
                    THEN path \o <<"?">> \o Param(request.params) ELSE path
  IN IF request.apiVersion.s = <<"v", "2">>
        /\ ~LooseEqualsEmpty(request.fields)
     THEN withParams \o (IF hasParams THEN <<"&">> ELSE <<"?">>)
            \o <<"f", "i", "e", "l", "d", "s", "=">>
            \o StringOf(request.fields)
     ELSE withParams

\* The descriptor checkAuthentication queues, as far as the url goes.
ProbeDescriptor ==
  [apiVersion |-> Str(<<"v", "2">>),
   endpoint |-> Str(<<"u", "s", "e", "r", "s", "/", "m", "e">>),
   params |-> Undefined,
   fields |-> Str(<<"l", "o", "g", "i", "n">>)]

\* The descriptors whose url is constructed in the runs of SpecUrl.
Descriptors ==
  [apiVersion : {Str(<<"v", "1">>), Str(<<"v", "2">>)},
   endpoint : {Str(<<"u", "s", "e", "r", "s", "/", "m", "e">>),
               Str(<<"t", "a", "x", "a">>)},
   params : {Undefined, Obj(<<>>),
             Obj(<<[key |-> <<"q">>, val |-> Str(<<"a", ",", "b">>)]>>),
             Obj(<<[key |-> <<"q">>, val |-> Str(<<"a">>)],
                   [key |-> <<"n">>, val |-> Num(<<"1">>)]>>)},
   fields : {Undefined, Null, Str(<<>>), Str(<<"l", "o", "g", "i", "n">>),
             AsString(<<<<"i", "d">>, <<"l", "o", "g", "i", "n">>>>),
             Str(<<"(", "l", "o", "g", "i", "n", ":", "!", "t", ")">>),
             Arr(<<>>),
             AsSequence(<<<<"i", "d">>, <<"l", "o", "g", "i", "n">>>>)}]
UrlCalls ==
  {[fn |-> "url", shape |-> "descriptor", names |-> <<>>, arg |-> request,
    done |-> FALSE, result |-> NoResult] : request \in Descriptors}

\* makeINatRequest constructs the url of the descriptor it has shifted.
ConstructUrl ==
  /\ call.fn = "url"
  /\ ~call.done
  /\ call' = [call EXCEPT !.done = TRUE, !.result = Str(Url(call.arg))]
  /\ UNCHANGED <<iNatAPIQueue, iNatAPIQueued, iNatAPIRateLimiting,
                 iNatAuthorized, headers, ajax, timeouts, enqueued, probes,
                 falsyCalls, syncFalse, dispatchLog, cbLog, authLog, ages,
                 exceeded, pollTimers, polls, drainedAt>>

\* ------------------------------------------------------------------------
\* The program

\* The globals once the script is loaded.
InitState ==
  /\ iNatAPIQueue = <<>>
  /\ iNatAPIQueued = FALSE
  /\ iNatAPIRateLimiting = FALSE
  /\ iNatAuthorized = JsFalse
  /\ headers = [Authorization |-> "", Accept |-> "application/json"]
  /\ ajax = {}
  /\ timeouts = <<>>
  /\ enqueued = 0
  /\ probes = 0
  /\ falsyCalls = 0
  /\ syncFalse = 0
  /\ dispatchLog = <<>>
  /\ cbLog = <<>>
  /\ authLog = {}
  /\ ages = <<>>
  /\ exceeded = FALSE
  /\ pollTimers = <<>>
  /\ polls = [p \in Callbacks |-> [freq |-> 0, log |-> <<>>]]
  /\ drainedAt = [p \in Callbacks |-> NoDrain]

Init == InitState /\ call = NoCall

\* The queue under application requests alone, with or without headers.
NextQueue ==
  \/ QueueRequest(MaxRequests, {"shared", "none"})
  \/ Callback
  \/ Complete
  \/ TimerFire
  \/ Tick

SpecQueue == Init /\ [][NextQueue]_vars

\* The queue under application requests that carry the shared headers and
\* under checkAuthentication.
NextAuth ==
  \/ QueueRequest(MaxAuthRequests, {"shared"})
  \/ CheckAuthenticationToken
  \/ CheckAuthenticationFalsy
  \/ Callback
  \/ Complete
  \/ TimerFire
  \/ Tick

SpecAuth == Init /\ [][NextAuth]_vars

\* The queue under application requests and under checkiNatQueue.
NextPoll ==
  \/ QueueRequest(MaxPollRequests, {"none"})
  \/ CheckQueue
  \/ PollFire
  \/ Callback
  \/ Complete
  \/ TimerFire
  \/ Tick

SpecPoll == Init /\ [][NextPoll]_vars

\* toRISON called on one value.
InitRison == InitState /\ call \in RisonCalls
NextRison == ApplyToRISON
SpecRison == InitRison /\ [][NextRison]_vars

\* The url of one descriptor constructed.
InitUrl == InitState /\ call \in UrlCalls
NextUrl == ConstructUrl
SpecUrl == InitUrl /\ [][NextUrl]_vars

\* The queue with the scheduling the event loop gives: a transport call
\* completes, its complete callback follows its success or error callback,
\* time passes and a timer that is due fires.
FairSpecQueue ==
  /\ SpecQueue
  /\ WF_vars(Callback)
  /\ WF_vars(Complete)
  /\ WF_vars(TimerFire)
  /\ WF_vars(Tick)

\* ------------------------------------------------------------------------
\* Properties

Ids(n) == [i \in 1..n |-> i]
Dispatched == Len(dispatchLog') > Len(dispatchLog)
Idle == ~iNatAPIQueued /\ ~iNatAPIRateLimiting /\ iNatAPIQueue = <<>>

\* C1: the success / error callbacks run in the order the descriptors were
\* enqueued, one callback per descriptor: the callbacks so far are those of
\* descriptors 1..k in this order, the dispatches likewise, and when no
\* transport call and no timer is pending every descriptor enqueued has had
\* its callback.
C1_FifoExactlyOnce ==
  /\ cbLog = Ids(Len(cbLog))
  /\ dispatchLog = Ids(Len(dispatchLog))
  /\ Len(cbLog) <= Len(dispatchLog)
  /\ Len(dispatchLog) <= enqueued
  /\ (ajax = {} /\ timeouts = <<>>) => Len(cbLog) = enqueued

\* Three callbacks have run, the third under rate limiting, with descriptors
\* still queued behind a cooldown.
C1_Witness ==
  /\ Len(cbLog) >= 3
  /\ timeouts # <<>>
  /\ iNatAPIQueue # <<>>

\* C2: at most one transport call is in flight at any time.
C2_OneInFlight == Cardinality(ajax) <= 1

\* A call is in flight while two descriptors wait in the queue.
C2_Witness == Cardinality(ajax) = 1 /\ Len(iNatAPIQueue) >= 2

\* C3: the number of dispatches within any window of one minute is at most
\* RequestsPerMinute.
C3_RateCeiling == Len(ages) <= RequestsPerMinute

\* C4 as claimed: once the queue depth has exceeded RequestsPerMinute in an
\* active period, every later dispatch of the period starts at least
\* APITimeout after the dispatch before it.
C4_Claimed == [][(Dispatched /\ exceeded) => LastAge >= APITimeout]_vars

\* C4 as amended: once iNatAPIRateLimiting is set, every later dispatch of the
\* active period starts at least APITimeout after the dispatch before it.
C4_Throttled ==
  [][(Dispatched /\ iNatAPIRateLimiting) => LastAge >= APITimeout]_vars

\* A third or later descriptor has just been dispatched under rate limiting.
C4_Witness ==
  /\ iNatAPIRateLimiting
  /\ Len(dispatchLog) >= 3
  /\ ages # <<>> /\ LastAge = 0
  /\ \E c \in ajax : c.st = "sent"

\* C5: every descriptor enqueued eventually has its callback run, and the
\* queue eventually returns to the idle state for good (the enqueues of a run
\* are finitely many).
C5_EventuallyServed ==
  /\ \A k \in 1..MaxRequests :
       (enqueued >= k) ~> (Len(cbLog) >= k)
  /\ <>[](Idle /\ Len(cbLog) = enqueued)

\* The queue is idle again after a burst that was rate limited.
C5_Witness == Idle /\ Len(cbLog) >= 4 /\ Len(cbLog) = enqueued

\* C6: an error is reported to the failed descriptor's own callback and
\* changes nothing of the queue; the complete callback that follows does what
\* it does after a success: with rate limiting on it sets a timer, otherwise
\* it dispatches the head of the queue or, the queue being empty, deactivates
\* queueing. In no case is the failed descriptor dispatched again or another
\* callback run.
C6_ErrorDoesNotStopQueue ==
  [][\A c \in ajax :
       /\ (c.st = "sent" /\ \E s \in {"error", "timeout"} :
              [c EXCEPT !.st = "called", !.status = s] \in ajax')
          => /\ cbLog' = Append(cbLog, c.req.id)
             /\ UNCHANGED <<iNatAPIQueue, iNatAPIQueued, iNatAPIRateLimiting,
                            timeouts, dispatchLog>>
       /\ (c.st = "called" /\ c \notin ajax')
          => /\ cbLog' = cbLog
             /\ IF iNatAPIRateLimiting
                THEN /\ timeouts' = Append(timeouts, APITimeout)
                     /\ UNCHANGED <<iNatAPIQueue, iNatAPIQueued,
                                    iNatAPIRateLimiting, dispatchLog>>
                     /\ ajax' = ajax \ {c}
                ELSE IF iNatAPIQueue # <<>>
                THEN /\ iNatAPIQueue' = Tail(iNatAPIQueue)
                     /\ dispatchLog' = Append(dispatchLog, Head(iNatAPIQueue).id)
                     /\ Head(iNatAPIQueue).id # c.req.id
                     /\ iNatAPIQueued' = iNatAPIQueued
                     /\ timeouts' = timeouts
                ELSE /\ iNatAPIQueue' = <<>>
                     /\ ~iNatAPIQueued' /\ ~iNatAPIRateLimiting'
                     /\ ajax' = {} /\ timeouts' = timeouts
                     /\ dispatchLog' = dispatchLog]_vars

\* The error callback of a call has run while descriptors wait in the queue.
C6_Witness ==
  \E c \in Completing : c.status # "success" /\ iNatAPIQueue # <<>>

\* C7: the callback of checkAuthentication reports the validity of the token
\* the call was made with, whenever the service answered the probe.
C7_ReportsOwnToken ==
  \A e \in authLog :
    e.status # "timeout" => (e.ok <=> e.token \in ValidTokens)

\* A callback(false) of checkAuthentication runs in this step.
ReportsFailure ==
  \/ syncFalse' > syncFalse
  \/ \E e \in authLog' \ authLog : ~e.ok
Cleared == headers.Authorization = "" /\ iNatAuthorized = JsFalse

\* C8 as claimed: after every callback(false) of checkAuthentication, from a
\* probe error or from a falsy token, the credential state is cleared.
C8_Claimed == [][ReportsFailure => Cleared']_vars

\* C8 as amended: after a callback(false) that comes from a probe error the
\* credential state is cleared; a call with a falsy token leaves
\* headers.Authorization and iNatAuthorized as they were.
C8_ProbeErrorClears ==
  [][/\ (\E e \in authLog' \ authLog : ~e.ok) => Cleared'
     /\ (syncFalse' > syncFalse) => UNCHANGED <<headers, iNatAuthorized>>]_vars

\* A probe was rejected after an earlier probe had succeeded, and a call with
\* a falsy token has been made.
C8_Witness ==
  /\ syncFalse >= 1
  /\ \E e \in authLog : \E f \in authLog :
       e.ok /\ ~f.ok /\ f.status = "error" /\ e.id < f.id

\* C9: a call of checkAuthentication with a falsy token runs callback(false)
\* once within the call and neither enqueues nor dispatches: queue, flags,
\* transport calls and timers are unchanged.
C9_FalsyTokenFrame ==
  [][falsyCalls' # falsyCalls
       => /\ falsyCalls' = falsyCalls + 1
          /\ syncFalse' = syncFalse + 1
          /\ UNCHANGED <<iNatAPIQueue, iNatAPIQueued, iNatAPIRateLimiting,
                         ajax, timeouts, enqueued, dispatchLog, cbLog,
                         authLog>>]_vars

\* The call was made while a request was in flight and another was queued.
C9_Witness == syncFalse >= 1 /\ falsyCalls >= 1 /\ ajax # {} /\ iNatAPIQueue # <<>>

\* C10: a descriptor with the shared headers is sent with the Authorization
\* the headers hold when it is dispatched.
C10_SentAtDispatch ==
  [][\A c \in ajax' \ ajax :
       (c.st = "sent" /\ c.req.headers = "shared")
         => c.sentAuth = headers'.Authorization]_vars

\* A probe in flight was sent with another Authorization than the token its
\* own call put in the headers when it was enqueued.
C10_Witness ==
  \E c \in ajax : c.req.kind = "probe" /\ c.sentAuth # c.req.token

\* C17 as claimed: at rest, iNatAPIQueued is false exactly when the queue is
\* empty and no request is in flight, also while a cooldown timer is pending.
C17_Claimed ==
  AtRest => (~iNatAPIQueued <=> (iNatAPIQueue = <<>> /\ ajax = {}))

\* C17 as amended: at rest, iNatAPIQueued is false exactly when the queue is
\* empty, no request is in flight and no cooldown timer is pending.
C17_ActiveUntilLastTimer ==
  AtRest =>
    (~iNatAPIQueued <=>
       (iNatAPIQueue = <<>> /\ ajax = {} /\ timeouts = <<>>))

\* The last cooldown: the queue is empty, nothing is in flight, the timer set
\* after the last completion is pending and queueing is still active.
C17_Witness ==
  /\ iNatAPIQueued
  /\ iNatAPIQueue = <<>> /\ ajax = {}
  /\ timeouts # <<>>

\* A token's most recent verification, by the callbacks that reported it.
LastVerified(token) ==
  \E e \in authLog :
    /\ e.token = token /\ e.ok
    /\ \A f \in authLog : f.token = token => f.id <= e.id

\* C18: iNatAuthorized is truthy only if headers.Authorization is set to a
\* token whose most recent verification succeeded.
C18_AuthorizedOnlyIfVerified ==
  iNatAuthorized # JsFalse =>
    (headers.Authorization # "" /\ LastVerified(headers.Authorization))

\* makeINatRequest runs on an empty queue in this step: a timer fires, or a
\* call completes without rate limiting, and nothing is left to dispatch.
RanOnEmpty ==
  /\ iNatAPIQueue = <<>>
  /\ ~Dispatched
  /\ \/ Len(timeouts') < Len(timeouts)
     \/ (~iNatAPIRateLimiting /\ Completing # {} /\ ajax' = {})

\* C19: iNatAPIRateLimiting is set only at a dispatch, exactly when more than
\* RequestsPerMinute descriptors remain after the pop; once true it stays true
\* through every step, whatever the queue depth, except that makeINatRequest
\* running on an empty queue sets it and iNatAPIQueued to false.
C19_FlagLifeCycle ==
  [][/\ (~iNatAPIRateLimiting /\ iNatAPIRateLimiting')
          => (Dispatched /\ Len(iNatAPIQueue') > RequestsPerMinute)
     /\ (Dispatched /\ Len(iNatAPIQueue') > RequestsPerMinute)
          => iNatAPIRateLimiting'
     /\ (iNatAPIRateLimiting /\ ~iNatAPIRateLimiting') => RanOnEmpty
     /\ RanOnEmpty => (~iNatAPIRateLimiting' /\ ~iNatAPIQueued')]_vars

\* Rate limiting is still on although the queue has fallen to the threshold
\* or below, after a dispatch under it.
C19_Witness ==
  /\ iNatAPIRateLimiting
  /\ Len(iNatAPIQueue) <= RequestsPerMinute
  /\ Len(dispatchLog) >= 3
  /\ ajax # {}

\* C20: while iNatAPIQueued is true exactly one thing is pending that will run
\* makeINatRequest, a request in flight or a cooldown timer; while it is
\* false the queue is empty, nothing is in flight, no timer is pending and
\* rate limiting is off.
C20_AlwaysDriven ==
  /\ iNatAPIQueued => Cardinality(ajax) + Len(timeouts) = 1
  /\ ~iNatAPIQueued =>
       (iNatAPIQueue = <<>> /\ ajax = {} /\ timeouts = <<>>
          /\ ~iNatAPIRateLimiting)

\* Descriptors wait in the queue behind a cooldown timer alone.
C20_Witness ==
  /\ iNatAPIQueued /\ iNatAPIQueue # <<>>
  /\ ajax = {} /\ Len(timeouts) = 1

\* The polls pending for a callback.
PollsPending(timers, callback) ==
  {i \in 1..Len(timers) : timers[i].callback = callback}
\* checkiNatQueue runs for the callback in this step.
Polled(callback) == polls'[callback].log # polls[callback].log

\* C11: the callback invocations a checkiNatQueue(freq, callback) call causes
\* are zero or more true followed by one false: a poll that finds
\* iNatAPIQueued true calls back with true and schedules exactly one further
\* poll after freq, a poll that finds it false calls back with false and
\* schedules nothing, and no poll follows a false.
C11_TruesThenOneFalse ==
  [][\A p \in Callbacks :
       Polled(p) =>
         /\ \A k \in 1..Len(polls[p].log) : polls[p].log[k]
         /\ polls'[p].log = Append(polls[p].log, iNatAPIQueued)
         /\ LET pending == PollsPending(pollTimers', p)
            IN IF iNatAPIQueued
               THEN /\ Cardinality(pending) = 1
                    /\ \A i \in pending :
                         /\ pollTimers'[i].left = polls'[p].freq
                         /\ pollTimers'[i].freq = polls'[p].freq
               ELSE pending = {}]_vars

\* A call that was answered true twice and then false, and has stopped.
C11_Witness ==
  \E p \in Callbacks :
    /\ polls[p].log = <<TRUE, TRUE, FALSE>>
    /\ PollsPending(pollTimers, p) = {}

\* C12 as claimed: once the queue has drained, the next poll of a running
\* poller calls back with false and polling stops, whatever queueINatRequest
\* calls, completions and timers fall between the drain and that poll.
C12_Claimed ==
  [][\A p \in Callbacks :
       (Polled(p) /\ drainedAt[p] # NoDrain) =>
         /\ polls'[p].log = Append(polls[p].log, FALSE)
         /\ PollsPending(pollTimers', p) = {}]_vars

\* C12 as amended: once the queue has drained, the next poll of a running
\* poller calls back with false and polling stops, provided queueINatRequest
\* has not been called between the drain and that poll.
C12_FalseAfterDrain ==
  [][\A p \in Callbacks :
       (Polled(p) /\ drainedAt[p] = enqueued) =>
         /\ polls'[p].log = Append(polls[p].log, FALSE)
         /\ PollsPending(pollTimers', p) = {}]_vars

\* A poller that saw the queue active, then drained, has been answered false
\* and has stopped, with all requests served.
C12_Witness ==
  \E p \in Callbacks :
    /\ Len(polls[p].log) >= 2
    /\ ~polls[p].log[Len(polls[p].log)]
    /\ PollsPending(pollTimers, p) = {}
    /\ drainedAt[p] = NoDrain
    /\ Len(cbLog) = MaxPollRequests
    /\ Idle

\* The encoding of a list of names: (n1:!t,...,nk:!t).
Marked(names) ==
  <<"(">> \o Join([i \in 1..Len(names) |-> names[i] \o <<":", "!", "t">>],
                  <<",">>)
    \o <<")">>

\* C15: for a list of comma-free names n1..nk, toRISON returns the string
\* (n1:!t,...,nk:!t) for the array of the names (k >= 0), for the names
\* joined with commas (k >= 1) and for the object with the names as keys and
\* scalar values (k >= 0).
C15_SameEncoding ==
  (call.fn = "toRISON" /\ call.done
     /\ call.shape \in {"sequence", "string", "mapping"})
  => call.result = Str(Marked(call.names))

\* C16: for a number, a boolean, null or an absent value toRISON returns
\* false, and it never throws, neither for such a value at top level nor for
\* an object that holds such a value.
C16_UnsupportedReturnsFalse ==
  /\ (call.fn = "toRISON" /\ call.done /\ call.shape = "unsupported")
       => call.result = False
  /\ (call.fn = "toRISON" /\ call.done /\ call.shape = "nested")
       => call.result # TypeError

\* Where a url carries a fields= parameter, and the value it carries.
FieldsAt(u) ==
  {i \in 2..(Len(u) - 6) :
     SubSeq(u, i, i + 6) = <<"f", "i", "e", "l", "d", "s", "=">>}
FieldsValue(u) ==
  LET i == CHOOSE j \in FieldsAt(u) : \A k \in FieldsAt(u) : j <= k
  IN SubSeq(u, i + 7, Len(u))
\* The descriptor has a fields value that is neither absent nor empty.
FieldsSpecified(request) ==
  /\ request.fields.t \notin {"undefined", "null"}
  /\ StringOf(request.fields) # <<>>

\* C13: the url carries a fields= parameter exactly when apiVersion is "v2"
\* and the fields value is non-empty (none when fields is absent or empty or
\* the version is "v1"); the parameter is joined with & when a query string
\* precedes it and with ? otherwise.
C13_FieldsWhenSpecified ==
  (call.fn = "url" /\ call.done) =>
    LET u == call.result.s
    IN /\ FieldsAt(u) # {}
            <=> (call.arg.apiVersion.s = <<"v", "2">>
                   /\ FieldsSpecified(call.arg))
       /\ \A i \in FieldsAt(u) :
            u[i - 1] = IF Includes(SubSeq(u, 1, i - 2), "?")
                       THEN "&" ELSE "?"

\* C14 as claimed: the value of the fields= parameter is the toRISON
\* encoding of the descriptor's fields value.
C14_Claimed ==
  (call.fn = "url" /\ call.done /\ FieldsAt(call.result.s) # {}) =>
    Str(FieldsValue(call.result.s)) = toRISON(call.arg.fields)

\* C14 as amended: the value of the fields= parameter is the descriptor's
\* fields value as string concatenation converts it, not encoded.
C14_RawFields ==
  (call.fn = "url" /\ call.done /\ FieldsAt(call.result.s) # {}) =>
    FieldsValue(call.result.s) = StringOf(call.arg.fields)

\* The url of the authentication probe, constructed: .../v2/users/me?fields=login
C14_Witness ==
  /\ call.fn = "url" /\ call.done
  /\ call.arg = ProbeDescriptor
  /\ call.result.s =
       base_url \o <<"/", "v", "2", "/", "u", "s", "e", "r", "s", "/", "m", "e",
                     "?", "f", "i", "e", "l", "d", "s", "=",
                     "l", "o", "g", "i", "n">>

====
